---- MODULE Spec2Model ----
(***************************************************************************)
(* Model of src/app.py: the Flask handler generate_post of POST            *)
(* /generate-post, its scratch-file staging, its single call of the        *)
(* provider's generate operation, the section parsing of the reply and     *)
(* the cleanup of the finally block.                                       *)
(*                                                                         *)
(* Strings whose content matters (userContext, the model's reply) are      *)
(* sequences of tokens: a token is one character or one whole section      *)
(* marker.  Python's None for such a value is the one-token sequence None, *)
(* whose token occurs in no text.                                          *)
(***************************************************************************)
EXTENDS Integers, Sequences, FiniteSets, TLC

\* ---------------------------------------------------------------- bounds
MaxFiles == 2      \* file parts under "images" in one request
MaxText == 6       \* tokens in a reply of the model (SpecParse)

\* ---------------------------------------------------------------- values
None == <<"<None>">>

FacebookMarker == "### Facebook Post ###"
XMarker == "### X (Twitter) Post ###"
InstagramMarker == "### Instagram Post ###"
Markers == {FacebookMarker, XMarker, InstagramMarker}

\* the prefix of the fallback, its final newline a token of its own
FallbackPrefix ==
  <<"Warning: Could not parse response into sections. The AI generated content might not be in the expected format.\n\nRaw AI Response:", "\n">>
ParsingFailed == <<"N/A (Parsing failed)">>

OutputLanguagePlaceholder == "{output_language}"

IsSpace(c) == c \in {" ", "\n"}

Min(S) == CHOOSE x \in S : \A y \in S : x <= y
Max(S) == CHOOSE x \in S : \A y \in S : x >= y

\* Strip as str.lstrip(): the trailing whitespace stays
StripLeading(s) ==
  LET keep == {i \in 1..Len(s) : ~IsSpace(s[i])}
  IN  IF keep = {} THEN <<>> ELSE SubSeq(s, Min(keep), Len(s))

\* Strip that strips nothing
StripNothing(s) == s

\* str.strip(): the string without its leading and trailing whitespace
Strip(s) ==
  LET keep == {i \in 1..Len(s) : ~IsSpace(s[i])}
  IN  IF keep = {} THEN <<>> ELSE SubSeq(s, Min(keep), Max(keep))

\* Python truthiness of an optional string
Truthy(s) == s # None /\ s # <<>>

\* IsBlankContext without the strip(): only None and "" are blank
IsBlankContextUntrimmed(uc) == ~Truthy(uc)

\* `not user_context or not user_context.strip()`
IsBlankContext(uc) == ~Truthy(uc) \/ ~Truthy(Strip(uc))

\* ------------------------------------------------------- the request
\* request.form: the fields of a form-encoded body; empty for a JSON body
RequestForm(req) ==
  IF req.encoding = "form" THEN req.fields ELSE [k \in {} |-> ""]

\* request.files.getlist('images'): file parts exist in a multipart body only
RequestFiles(req) ==
  IF req.encoding = "form" THEN req.files ELSE <<>>

\* FormGet that never finds the key
FormGetDefault(form, key, default) == default

\* request.form.get(key, default)
FormGet(form, key, default) ==
  IF key \in DOMAIN form THEN form[key] ELSE default

\* IsAcceptedImage without the media type check
IsAcceptedImageAnyType(file_storage) == file_storage.filename # ""

\* the staging condition of one file part
IsAcceptedImage(file_storage) ==
  /\ file_storage.filename # ""
  /\ file_storage.mimetype # <<>>
  /\ file_storage.mimetype[1] = "image/"

\* ------------------------------------------------------- the prompt
\* The prompt, by its interpolated places.  The first block and the image
\* note are f-strings; the template block that ends the prompt is a plain
\* string, so its braces are text.
ComposePrompt(pt, il, ol, uc, n_images) ==
  [ post_type       |-> pt,
    input_language  |-> il,
    output_language |-> ol,
    user_context    |-> Strip(uc),
    images_note     |-> n_images,   \* 0: "No images were provided."
    markers         |-> <<FacebookMarker, XMarker, InstagramMarker>>,
    strictly_in     |-> OutputLanguagePlaceholder ]

\* ------------------------------------------------------- the reply
\* first index >= from of token m in t, 0 when there is none
Find(t, m, from) ==
  LET at == {i \in from..Len(t) : t[i] = m}
  IN  IF at = {} THEN 0 ELSE Min(at)

\* \s* : the position after the whitespace run that starts at j
SkipSpace(t, j) ==
  Min({k \in j..(Len(t) + 1) : k > Len(t) \/ ~IsSpace(t[k])})

\* (?=\s*marker) at position p
LookaheadMarker(t, p, m) ==
  LET q == SkipSpace(t, p) IN q <= Len(t) /\ t[q] = m

\* $ without re.MULTILINE: the end, or just before a final newline
AtDollar(t, p) ==
  p = Len(t) + 1 \/ (p = Len(t) /\ t[p] = "\n")

NoMatch == [matched |-> FALSE, group1 |-> <<>>]

\* SearchSection with a greedy group: the capture runs to the end of the text
SearchSectionGreedy(t, m, stop) ==
  LET i == Find(t, m, 1)
  IN  IF i = 0 THEN NoMatch
      ELSE [matched |-> TRUE, group1 |-> SubSeq(t, SkipSpace(t, i + 1), Len(t))]

\* re.search(marker \s* ([\s\S]*?) (?= \s* stop | $), t); stop = "" when the
\* pattern ends in $ alone
SearchSection(t, m, stop) ==
  LET i == Find(t, m, 1)
  IN  IF i = 0 THEN NoMatch
      ELSE LET j == SkipSpace(t, i + 1)
               p == Min({k \in j..(Len(t) + 1) :
                          \/ (stop # "" /\ LookaheadMarker(t, k, stop))
                          \/ AtDollar(t, k)})
           IN  [matched |-> TRUE, group1 |-> SubSeq(t, j, p - 1)]

SectionContent(match) == IF match.matched THEN Strip(match.group1) ELSE <<>>

\* the except branch of generate_post: the message by what str(e) contains
ClassifyError(error_message) ==
  LET has(w) == \E i \in 1..Len(error_message) : error_message[i] = w
  IN  IF has("API key") \/ has("authentication")
        THEN <<"API authentication failed. Check your GEMINI_API_KEY.">>
      ELSE IF has("quota")
        THEN <<"API quota exceeded. Please try again later.">>
      ELSE IF has("rate limit")
        THEN <<"API rate limit exceeded. Please try again later.">>
      ELSE IF has("invalid_argument") \/ has("Bad Request")
        THEN <<"Invalid input sent to AI model: ">> \o error_message
      ELSE <<"An unexpected error occurred: ">> \o error_message

ErrorResponse(status, message) ==
  [status |-> status, body |-> [error |-> message]]

\* what follows the generate call for the reply text it returned
ParseResponse(generated_text) ==
  IF generated_text = None
    THEN \* len(None) raises TypeError, caught by the except branch
         ErrorResponse(500, ClassifyError(<<"object of type 'NoneType' has no len()">>))
  ELSE
    LET facebook_content == SectionContent(SearchSection(generated_text, FacebookMarker, XMarker))
        x_content == SectionContent(SearchSection(generated_text, XMarker, InstagramMarker))
        instagram_content == SectionContent(SearchSection(generated_text, InstagramMarker, ""))
    IN  IF facebook_content = <<>> /\ x_content = <<>> /\ instagram_content = <<>>
          THEN IF Truthy(generated_text) /\ Truthy(Strip(generated_text))
                 THEN [status |-> 200,
                       body |-> [facebook |-> FallbackPrefix \o Strip(generated_text),
                                 x |-> ParsingFailed,
                                 instagram |-> ParsingFailed]]
                 ELSE ErrorResponse(500, <<"Failed to generate content from the AI model. The response was empty.">>)
          ELSE [status |-> 200,
                body |-> [facebook |-> facebook_content,
                          x |-> x_content,
                          instagram |-> instagram_content]]

\* ------------------------------------------------------- inputs
\* file parts as werkzeug presents them: mimetype is the declared type,
\* as <<type "/", subtype>>, or <<>> when the part declares none
ImagePart == [filename |-> "photo.png", mimetype |-> <<"image/", "png">>]
PdfPart == [filename |-> "doc.pdf", mimetype |-> <<"application/", "pdf">>]
UnnamedPart == [filename |-> "", mimetype |-> <<"image/", "png">>]
FileParts == {ImagePart, PdfPart, UnnamedPart}

FileLists == UNION {[1..n -> FileParts] : n \in 0..MaxFiles}

UserContexts == {<<>>, <<" ">>, <<"a">>, <<" ", "a", " ">>}

OptionalFields ==
  { [k \in {} |-> ""],
    [outputLanguage |-> "Marathi"],
    [postType |-> "Promo", inputLanguage |-> "Hindi", outputLanguage |-> "Marathi"] }

FieldSets ==
  OptionalFields \cup
  {("userContext" :> uc) @@ o : uc \in UserContexts, o \in OptionalFields}

Requests ==
  {[encoding |-> "form", fields |-> f, files |-> fs] : f \in FieldSets, fs \in FileLists}
  \cup {[encoding |-> "json", fields |-> f, files |-> <<>>] : f \in FieldSets}

\* what the provider may answer in Spec
SampleReplies ==
  { None, <<>>, <<"\n">>, <<"a">>,
    <<FacebookMarker, "\n", "a", "\n", XMarker, "a", InstagramMarker, "a", "\n">> }

\* what str(e) of a failed generate call may be
ProviderErrors == {<<"quota">>, <<"API key", "not valid">>, <<"503", "unavailable">>}

RepliesUpTo(n) ==
  UNION {[1..k -> Markers \cup {"\n", "a"}] : k \in 0..n}

\* ------------------------------------------------------- the state
VARIABLES
  client,                 \* the module's client: TRUE when genai.Client was built
  request,                \* the request being handled
  pc,                     \* where generate_post is
  post_type, input_language, output_language, user_context,
  uploaded_gemini_files,  \* results of the uploads that returned
  temp_file_paths,        \* scratch paths recorded for the finally block
  idx,                    \* position of the staging loop in the file parts
  text_part_content,      \* the prompt
  parts,                  \* the parts of the one Content sent to the model
  generated_text,         \* response.text
  response,               \* (body, status) the handler returns
  fin,                    \* position of the finally loop in temp_file_paths
  storage,                \* scratch paths that exist on disk
  upload_calls,           \* paths passed to client.files.upload, in call order
  generate_calls,         \* calls of client.models.generate_content: contents, outcome
  logged_errors           \* what logging.error reported per file: <<kind, path>>

vars == <<client, request, pc, post_type, input_language, output_language,
          user_context, uploaded_gemini_files, temp_file_paths, idx,
          text_part_content, parts, generated_text, response, fin, storage,
          upload_calls, generate_calls, logged_errors>>

NoResponse == [status |-> 0, body |-> [error |-> <<>>]]
NoPrompt == ComposePrompt("", "", "", <<>>, 0)

Locals ==
  /\ pc = "entry"
  /\ post_type = "" /\ input_language = "" /\ output_language = ""
  /\ user_context = None
  /\ uploaded_gemini_files = <<>>
  /\ temp_file_paths = <<>>
  /\ idx = 1
  /\ text_part_content = NoPrompt
  /\ parts = <<>>
  /\ generated_text = None
  /\ response = NoResponse
  /\ fin = 1
  /\ storage = {}
  /\ upload_calls = <<>>
  /\ generate_calls = <<>>
  /\ logged_errors = {}

Init ==
  /\ client \in BOOLEAN
  /\ request \in Requests
  /\ Locals

\* ------------------------------------------------------- generate_post
\* the client check, the reading of the form and the validation
Entry ==
  /\ pc = "entry"
  /\ IF ~client
       THEN /\ response' = ErrorResponse(500, <<"Server is not configured with the API key or failed to initialize API client.">>)
            /\ pc' = "returned"
            /\ UNCHANGED <<post_type, input_language, output_language, user_context>>
       ELSE LET form == RequestForm(request)
                uc == FormGet(form, "userContext", None)
            IN  /\ post_type' = FormGet(form, "postType", "General")
                /\ input_language' = FormGet(form, "inputLanguage", "English")
                /\ output_language' = FormGet(form, "outputLanguage", "English")
                /\ user_context' = uc
                /\ IF IsBlankContext(uc)
                     THEN /\ response' = ErrorResponse(400, <<"User context is required">>)
                          /\ pc' = "finally"
                     ELSE /\ response' = response
                          /\ pc' = "staging"
  /\ UNCHANGED <<client, request, uploaded_gemini_files, temp_file_paths, idx,
                 text_part_content, parts, generated_text, fin, storage,
                 upload_calls, generate_calls, logged_errors>>

\* how the try block of one accepted file part may end
StageOutcomes == {"mkstemp raises", "copy raises", "upload raises", "uploaded"}

\* ProcessFile whose failure leaves the loop for the outer except branch
ProcessFileAborts ==
  /\ pc = "staging"
  /\ idx <= Len(RequestFiles(request))
  /\ IF IsAcceptedImage(RequestFiles(request)[idx])
       THEN /\ logged_errors' = logged_errors \cup {<<"staging", idx>>}
            /\ response' = ErrorResponse(500, ClassifyError(<<"upload failed">>))
            /\ pc' = "finally"
       ELSE UNCHANGED <<logged_errors, response, pc>>
  /\ idx' = idx + 1
  /\ UNCHANGED <<client, request, post_type, input_language, output_language,
                 user_context, uploaded_gemini_files, temp_file_paths,
                 text_part_content, parts, generated_text, fin, storage,
                 upload_calls, generate_calls>>

\* one iteration of the loop over the file parts; mkstemp names a fresh
\* path, here the position of the part in the request
ProcessFile ==
  /\ pc = "staging"
  /\ idx <= Len(RequestFiles(request))
  /\ LET file_storage == RequestFiles(request)[idx]
         temp_file_path == idx
     IN  IF IsAcceptedImage(file_storage)
           THEN \E outcome \in StageOutcomes :
                  /\ temp_file_paths' =
                       IF outcome = "mkstemp raises" THEN temp_file_paths
                       ELSE Append(temp_file_paths, temp_file_path)
                  /\ storage' =
                       IF outcome = "mkstemp raises" THEN storage
                       ELSE storage \cup {temp_file_path}
                  /\ upload_calls' =
                       IF outcome \in {"upload raises", "uploaded"}
                         THEN Append(upload_calls, temp_file_path)
                         ELSE upload_calls
                  /\ uploaded_gemini_files' =
                       IF outcome = "uploaded"
                         THEN Append(uploaded_gemini_files,
                                     [uri |-> temp_file_path, mime_type |-> file_storage.mimetype])
                         ELSE uploaded_gemini_files
                  /\ logged_errors' =
                       IF outcome = "uploaded" THEN logged_errors
                       ELSE logged_errors \cup {<<"staging", temp_file_path>>}
           ELSE UNCHANGED <<temp_file_paths, storage, upload_calls,
                            uploaded_gemini_files, logged_errors>>
  /\ idx' = idx + 1
  /\ UNCHANGED <<client, request, pc, post_type, input_language, output_language,
                 user_context, text_part_content, parts, generated_text, response,
                 fin, generate_calls>>

\* the URI parts of the uploaded files whose Part.from_uri did not raise
RECURSIVE UriParts(_, _, _)
UriParts(files, failed, i) ==
  IF i > Len(files) THEN <<>>
  ELSE (IF i \in failed THEN <<>>
        ELSE <<[file_uri |-> files[i].uri, mime_type |-> files[i].mime_type]>>)
       \o UriParts(files, failed, i + 1)

\* after the loop: the second content check, the prompt and the parts
BuildParts ==
  /\ pc = "staging"
  /\ idx > Len(RequestFiles(request))
  /\ IF Strip(user_context) = <<>> /\ uploaded_gemini_files = <<>>
       THEN /\ response' = ErrorResponse(400, <<"Please provide text details or upload valid images.">>)
            /\ pc' = "finally"
            /\ UNCHANGED <<text_part_content, parts, logged_errors>>
       ELSE /\ text_part_content' =
                 ComposePrompt(post_type, input_language, output_language,
                               user_context, Len(uploaded_gemini_files))
            /\ \E failed \in SUBSET (1..Len(uploaded_gemini_files)) :
                 /\ parts' = <<[text |-> text_part_content']>>
                               \o UriParts(uploaded_gemini_files, failed, 1)
                 /\ logged_errors' = logged_errors \cup
                      {<<"part", uploaded_gemini_files[i].uri>> : i \in failed}
            /\ pc' = "call"
            /\ response' = response
  /\ UNCHANGED <<client, request, post_type, input_language, output_language,
                 user_context, uploaded_gemini_files, temp_file_paths, idx,
                 generated_text, fin, storage, upload_calls, generate_calls>>

\* GenerateContent that calls a second time when the first call raised
GenerateContentRetries ==
  /\ pc = "call"
  /\ generate_calls' = generate_calls \o <<[contents |-> parts, raised |-> TRUE],
                                           [contents |-> parts, raised |-> TRUE]>>
  /\ response' = ErrorResponse(500, ClassifyError(<<"quota">>))
  /\ pc' = "finally"
  /\ UNCHANGED <<client, request, post_type, input_language, output_language,
                 user_context, uploaded_gemini_files, temp_file_paths, idx,
                 text_part_content, parts, generated_text, fin, storage,
                 upload_calls, logged_errors>>

\* the generate call, and what the handler makes of its result
GenerateContent ==
  /\ pc = "call"
  /\ \E outcome \in {[raises |-> TRUE, value |-> e] : e \in ProviderErrors}
                    \cup {[raises |-> FALSE, value |-> r] : r \in SampleReplies} :
       /\ generate_calls' = Append(generate_calls,
                                   [contents |-> parts, raised |-> outcome.raises])
       /\ IF outcome.raises
            THEN /\ response' = ErrorResponse(500, ClassifyError(outcome.value))
                 /\ generated_text' = generated_text
            ELSE /\ generated_text' = outcome.value
                 /\ response' = ParseResponse(outcome.value)
  /\ pc' = "finally"
  /\ UNCHANGED <<client, request, post_type, input_language, output_language,
                 user_context, uploaded_gemini_files, temp_file_paths, idx,
                 text_part_content, parts, fin, storage, upload_calls,
                 logged_errors>>

\* one iteration of the finally block; os.remove may raise, which is logged
CleanupFile ==
  /\ pc = "finally"
  /\ fin <= Len(temp_file_paths)
  /\ LET temp_path == temp_file_paths[fin]
     IN  IF temp_path \in storage
           THEN \E removed \in BOOLEAN :
                  /\ storage' = IF removed THEN storage \ {temp_path} ELSE storage
                  /\ logged_errors' =
                       IF removed THEN logged_errors
                       ELSE logged_errors \cup {<<"cleanup", temp_path>>}
           ELSE UNCHANGED <<storage, logged_errors>>
  /\ fin' = fin + 1
  /\ UNCHANGED <<client, request, pc, post_type, input_language, output_language,
                 user_context, uploaded_gemini_files, temp_file_paths, idx,
                 text_part_content, parts, generated_text, response,
                 upload_calls, generate_calls>>

\* Return that does not wait for the cleanup loop
ReturnBeforeCleanup ==
  /\ pc = "finally"
  /\ pc' = "returned"
  /\ UNCHANGED <<client, request, post_type, input_language, output_language,
                 user_context, uploaded_gemini_files, temp_file_paths, idx,
                 text_part_content, parts, generated_text, response, fin,
                 storage, upload_calls, generate_calls, logged_errors>>

\* the finally block is through: the response goes out
Return ==
  /\ pc = "finally"
  /\ fin > Len(temp_file_paths)
  /\ pc' = "returned"
  /\ UNCHANGED <<client, request, post_type, input_language, output_language,
                 user_context, uploaded_gemini_files, temp_file_paths, idx,
                 text_part_content, parts, generated_text, response, fin,
                 storage, upload_calls, generate_calls, logged_errors>>

Next == Entry \/ ProcessFile \/ BuildParts \/ GenerateContent \/ CleanupFile \/ Return

Spec == Init /\ [][Next]_vars

\* ------------------------------------------------------- the parsing alone
\* The statements after the generate call, applied to every reply up to
\* MaxText tokens.
InitParse ==
  /\ client = TRUE
  /\ request = [encoding |-> "form", fields |-> [userContext |-> <<"a">>], files |-> <<>>]
  /\ pc = "parse"
  /\ post_type = "General" /\ input_language = "English" /\ output_language = "English"
  /\ user_context = <<"a">>
  /\ uploaded_gemini_files = <<>>
  /\ temp_file_paths = <<>>
  /\ idx = 1
  /\ text_part_content = ComposePrompt("General", "English", "English", <<"a">>, 0)
  /\ parts = <<[text |-> text_part_content]>>
  /\ generated_text \in RepliesUpTo(MaxText) \cup {None}
  /\ response = NoResponse
  /\ fin = 1
  /\ storage = {}
  /\ upload_calls = <<>>
  /\ generate_calls = <<[contents |-> parts, raised |-> FALSE]>>
  /\ logged_errors = {}

ParseReply ==
  /\ pc = "parse"
  /\ response' = ParseResponse(generated_text)
  /\ pc' = "returned"
  /\ UNCHANGED <<client, request, post_type, input_language, output_language,
                 user_context, uploaded_gemini_files, temp_file_paths, idx,
                 text_part_content, parts, generated_text, fin, storage,
                 upload_calls, generate_calls, logged_errors>>

NextParse == ParseReply

SpecParse == InitParse /\ [][NextParse]_vars

\* ------------------------------------------------------- properties
Range(seq) == {seq[i] : i \in 1..Len(seq)}

RECURSIVE Ascending(_)
Ascending(S) ==
  IF S = {} THEN <<>>
  ELSE LET m == CHOOSE x \in S : \A y \in S : x <= y
       IN  <<m>> \o Ascending(S \ {m})

RECURSIVE Trimmed(_)
Trimmed(s) ==
  IF s = <<>> THEN s
  ELSE IF Head(s) \in {" ", "\n"} THEN Trimmed(Tail(s))
  ELSE IF s[Len(s)] \in {" ", "\n"} THEN Trimmed(SubSeq(s, 1, Len(s) - 1))
  ELSE s

Returned == pc = "returned"

\* the request's userContext is missing, or blank once trimmed
SentContextBlank ==
  \/ "userContext" \notin DOMAIN request.fields
  \/ Trimmed(request.fields.userContext) = <<>>

FormEncoded == request.encoding = "form"

\* file part i declares an image type and carries a filename
DeclaredImage(i) ==
  /\ request.files[i].filename # ""
  /\ Len(request.files[i].mimetype) > 0
  /\ request.files[i].mimetype[1] = "image/"

NoExternalCall == upload_calls = <<>> /\ generate_calls = <<>>

\* the references a generate call carried, in the order of its parts
UrisOf(call) == [i \in 1..(Len(call.contents) - 1) |-> call.contents[i + 1].file_uri]

\* the prompt a generate call carried
PromptOf(call) == call.contents[1].text

\* the accepted file parts for which no error of the given kinds was logged
KeptParts(kinds) ==
  Ascending({i \in 1..Len(request.files) :
               DeclaredImage(i) /\ \A k \in kinds : <<k, i>> \notin logged_errors})

\* C1 as stated: a request whose userContext is missing or blank is answered
\* 400 whatever its attachments, and no upload or generate call is made.
C1_BlankContextIs400 ==
  SentContextBlank =>
    /\ NoExternalCall
    /\ Returned => response.status = 400

\* C1, amended: with a configured provider client, a request whose
\* userContext is missing or blank after trimming is answered 400 whatever
\* its attachments, and no upload or generate call is made; without a client
\* the answer is 500, also without any external call.
C1_BlankContextRejected ==
  SentContextBlank =>
    /\ NoExternalCall
    /\ Returned => response.status = IF client THEN 400 ELSE 500

C1_Witness ==
  /\ Returned /\ client /\ FormEncoded
  /\ "userContext" \in DOMAIN request.fields
  /\ request.fields.userContext = <<" ">>
  /\ \E i \in 1..Len(request.files) : DeclaredImage(i)
  /\ response = ErrorResponse(400, <<"User context is required">>)

C3_JsonBodyAccepted ==
  (Returned /\ client /\ ~SentContextBlank) =>
    /\ response.status # 400
    /\ Len(generate_calls) = 1

\* C3, amended: the fields are read from form data only.  A form-encoded
\* request with a non-blank userContext passes validation and reaches the
\* generate call; a JSON body with the same values is answered 400 "User
\* context is required" and no generate call is made.
C3_FormFieldsOnly ==
  (Returned /\ client /\ ~SentContextBlank) =>
    IF FormEncoded
      THEN response.status # 400 /\ Len(generate_calls) = 1
      ELSE /\ response = ErrorResponse(400, <<"User context is required">>)
           /\ generate_calls = <<>>

C3_Witness ==
  /\ Returned /\ client /\ ~SentContextBlank
  /\ request.encoding = "json"
  /\ request.fields.userContext = <<"a">>
  /\ response.status = 400

\* C4: a request that passes validation with a configured client invokes the
\* generate operation exactly once, after the staging loop has finished:
\* never twice, also when the call raises, and never not at all.
C4_GenerateExactlyOnce ==
  /\ Len(generate_calls) <= 1
  /\ generate_calls # <<>> =>
       /\ idx = Len(request.files) + 1
       /\ pc \in {"finally", "returned"}
  /\ (Returned /\ client /\ FormEncoded /\ ~SentContextBlank) =>
       Len(generate_calls) = 1

C4_Witness ==
  /\ Returned /\ client
  /\ Len(generate_calls) = 1 /\ generate_calls[1].raised
  /\ Len(request.files) = 2
  /\ <<"staging", 2>> \in logged_errors
  /\ response.status = 500

\* C5 as stated: a failed staging or upload drops that attachment only; the
\* later ones are processed and the generate call carries the references of
\* all successfully uploaded attachments, in request order.
C5_FailedAttachmentDroppedAlone ==
  (Returned /\ client /\ FormEncoded /\ ~SentContextBlank) =>
    /\ idx = Len(request.files) + 1
    /\ Len(generate_calls) = 1
    /\ UrisOf(generate_calls[1]) = KeptParts({"staging"})

\* C5, amended: a failed staging or upload drops that attachment only; the
\* later ones are processed and the generate call carries, in request order,
\* the references of the successfully uploaded attachments whose URI part
\* was built without error (a failing Part.from_uri drops that reference
\* only, too).
C5_FailedAttachmentOrPartDroppedAlone ==
  (Returned /\ client /\ FormEncoded /\ ~SentContextBlank) =>
    /\ idx = Len(request.files) + 1
    /\ Len(generate_calls) = 1
    /\ UrisOf(generate_calls[1]) = KeptParts({"staging", "part"})

C5_Witness ==
  /\ Returned /\ client
  /\ Len(request.files) = 2
  /\ <<"staging", 1>> \in logged_errors
  /\ upload_calls = <<1, 2>>
  /\ Len(generate_calls) = 1
  /\ UrisOf(generate_calls[1]) = <<2>>
  /\ response.status = 200

\* C6: a file part whose media type does not begin with "image/" or whose
\* filename is empty is never staged, never uploaded and never referenced in
\* the generate call, and a request with non-blank userContext does not fail
\* for it: when the model answers with text, the response is 200.
C6_NonImagesExcluded ==
  /\ \A i \in 1..Len(request.files) :
       ~DeclaredImage(i) =>
         /\ i \notin storage
         /\ i \notin Range(temp_file_paths)
         /\ i \notin Range(upload_calls)
         /\ \A n \in 1..Len(generate_calls) : i \notin Range(UrisOf(generate_calls[n]))
  /\ (Returned /\ client /\ FormEncoded /\ ~SentContextBlank) =>
       /\ response.status # 400
       /\ (/\ generate_calls # <<>> /\ ~generate_calls[1].raised
           /\ generated_text # None /\ Trimmed(generated_text) # <<>>)
            => response.status = 200

C6_Witness ==
  /\ Returned /\ client
  /\ request.files = <<PdfPart, UnnamedPart>>
  /\ Len(generate_calls) = 1
  /\ Len(generate_calls[1].contents) = 1
  /\ response.status = 200

\* the text between the first occurrence of marker m and the next marker of
\* any kind (or the end), trimmed
Between(t, m) ==
  LET i == CHOOSE k \in 1..Len(t) : t[k] = m /\ \A l \in 1..(k - 1) : t[l] # m
      n == CHOOSE k \in (i + 1)..(Len(t) + 1) :
             /\ k = Len(t) + 1 \/ t[k] \in Markers
             /\ \A l \in (i + 1)..(k - 1) : t[l] \notin Markers
  IN  Trimmed(SubSeq(t, i + 1, n - 1))

SectionsAreBetweenMarkers ==
  /\ response.status = 200
  /\ response.body.facebook = Between(generated_text, FacebookMarker)
  /\ response.body.x = Between(generated_text, XMarker)
  /\ response.body.instagram = Between(generated_text, InstagramMarker)

\* each marker once, in the order of the template
MarkersInTemplateOrder(t) ==
  \E f, x, g \in 1..Len(t) :
    /\ f < x /\ x < g
    /\ t[f] = FacebookMarker /\ t[x] = XMarker /\ t[g] = InstagramMarker
    /\ \A k \in 1..Len(t) : t[k] \in Markers => k \in {f, x, g}

\* C7 as stated: for any reply containing all three markers, the three
\* fields of the 200 result are the trimmed texts between each marker and
\* the next marker (or the end).
C7_SectionsExtracted ==
  (Returned /\ Markers \subseteq Range(generated_text)) => SectionsAreBetweenMarkers

\* C7, amended: for a reply that contains each of the three markers once,
\* in the order Facebook, X, Instagram, and at least one non-blank section,
\* the three fields of the 200 result are the trimmed texts between each
\* marker and the next marker (or the end), whatever blank lines surround
\* the markers.
C7_WellFormedSectionsExtracted ==
  (/\ Returned
   /\ MarkersInTemplateOrder(generated_text)
   /\ \E m \in Markers : Between(generated_text, m) # <<>>)
    => SectionsAreBetweenMarkers

C7_Witness ==
  /\ Returned
  /\ generated_text = <<FacebookMarker, "\n", "a", "\n", XMarker, InstagramMarker>>
  /\ response = [status |-> 200,
                 body |-> [facebook |-> <<"a">>, x |-> <<>>, instagram |-> <<>>]]

\* s occurs in t as a contiguous run
Contains(t, s) ==
  \E o \in 0..(Len(t) - Len(s)) : \A i \in 1..Len(s) : t[o + i] = s[i]

\* C8 as stated: a non-empty reply with none of the markers gives 200, a
\* facebook field that begins with the fallback prefix and contains the full
\* raw reply, and the sentinel in x and instagram.
C8_FallbackCarriesRawText ==
  (/\ Returned /\ generated_text # None /\ generated_text # <<>>
   /\ Range(generated_text) \cap Markers = {})
    => /\ response.status = 200
       /\ SubSeq(response.body.facebook, 1, Len(FallbackPrefix)) = FallbackPrefix
       /\ Contains(response.body.facebook, generated_text)
       /\ response.body.x = <<"N/A (Parsing failed)">>
       /\ response.body.instagram = <<"N/A (Parsing failed)">>

\* C8, amended: a reply with none of the markers that is not blank (not
\* only whitespace) gives 200, a facebook field that is the fallback prefix
\* followed by the reply trimmed of surrounding whitespace, and the sentinel
\* in x and instagram.
C8_FallbackCarriesTrimmedText ==
  (/\ Returned /\ generated_text # None /\ Trimmed(generated_text) # <<>>
   /\ Range(generated_text) \cap Markers = {})
    => /\ response.status = 200
       /\ response.body.facebook = FallbackPrefix \o Trimmed(generated_text)
       /\ response.body.x = <<"N/A (Parsing failed)">>
       /\ response.body.instagram = <<"N/A (Parsing failed)">>

C8_Witness ==
  /\ Returned
  /\ generated_text = <<"\n", "a", "\n", "a", "\n">>
  /\ response.status = 200
  /\ Len(response.body.facebook) = Len(FallbackPrefix) + 3

\* C9: when the generate call returns but the reply is empty (no text, or
\* only whitespace), the answer is 500 with an error body, never a body with
\* facebook, x and instagram.
C9_EmptyReplyIs500 ==
  (/\ Returned /\ generate_calls # <<>> /\ ~generate_calls[1].raised
   /\ (generated_text = None \/ Trimmed(generated_text) = <<>>))
    => /\ response.status = 500
       /\ DOMAIN response.body = {"error"}

C9_Witness ==
  /\ Returned /\ generate_calls # <<>> /\ ~generate_calls[1].raised
  /\ generated_text = <<"\n">>
  /\ temp_file_paths # <<>>
  /\ response.status = 500

\* C10: the prompt sent to the model embeds the request's postType,
\* inputLanguage, outputLanguage and trimmed userContext, and its closing
\* instruction names the request's outputLanguage value.
C10_PromptNamesOutputLanguage ==
  \A n \in 1..Len(generate_calls) :
    LET prompt == PromptOf(generate_calls[n])
        sent(k, default) == IF k \in DOMAIN request.fields
                              THEN request.fields[k] ELSE default
    IN  /\ prompt.post_type = sent("postType", "General")
        /\ prompt.input_language = sent("inputLanguage", "English")
        /\ prompt.output_language = sent("outputLanguage", "English")
        /\ prompt.user_context = Trimmed(request.fields.userContext)
        /\ prompt.strictly_in = sent("outputLanguage", "English")

====
